---- MODULE Spec2Model ----
(***************************************************************************)
(* Secret Santa assignment program (src/main.py).                          *)
(*                                                                         *)
(* The model covers the feasibility checker is_assignment_possible, the    *)
(* assignment engine assign_secret_santa (one action per loop iteration    *)
(* and per return) and the main program that drives them (lines 205-220).  *)
(*                                                                         *)
(* Python values:                                                          *)
(*   - a dict is a function from its keys to its values;                   *)
(*   - the lists all_names and valid_assignments[name] are lists of        *)
(*     distinct names (they are filtered copies of the keys of a dict),    *)
(*     and the code only tests membership, removes by value, tests         *)
(*     emptiness and draws with random.choice, so they are sets here;      *)
(*   - None as a partner is the string "None", which is no name of the     *)
(*     model; an optional mapping (the engine's return value) is the       *)
(*     empty sequence for None and <<m>> for the mapping m;                *)
(*   - random.choice(l) is a nondeterministic choice among the elements.   *)
(* The names A, B, C ... stand for any distinct participant names (the     *)
(* scenarios' Alice and Bob are A and B).                                  *)
(***************************************************************************)
EXTENDS Integers, Sequences, FiniteSets, TLC

\* Bounds of the model.
MaxNames == 3         \* names the user may type at the first input
MaxPre == 2           \* "Giver > Receiver" lines the user may type
MaxReNames == 2       \* names the user may type when re-entering

NameUniverse == <<"A", "B", "C", "D", "E">>
Names == {NameUniverse[i] : i \in 1..MaxNames}
ReNames == {NameUniverse[i] : i \in 1..MaxReNames}
None == "None"

VARIABLES
    pc,                 \* position of the main program / of the engine
    participants,       \* main program's variable participants
    pre_assigned,       \* main program's variable pre_assigned
    assignment,         \* main program's variable assignment (line 215)
    all_names,          \* engine local: unresolved givers
    valid_assignments,  \* engine local: candidate lists per name
    assignments         \* engine local: the working mapping

vars == <<pc, participants, pre_assigned, assignment,
          all_names, valid_assignments, assignments>>

----------------------------------------------------------------------------
\* Python values

EmptyDict == <<>>
NoResult == <<>>
Mapping(m) == <<m>>
IsNone(r) == Len(r) = 0

\* bool(x) for an optional mapping: None and the empty dict are falsy.
Truthy(r) == Len(r) = 1 /\ DOMAIN r[1] # {}

Values(d) == {d[k] : k \in DOMAIN d}

\* d[k] = v
DictSet(d, k, v) == [x \in DOMAIN d \cup {k} |-> IF x = k THEN v ELSE d[x]]

\* The value bound to the name participants: a dict, or (line 213) the tuple
\* returned by input_participants.
AsDict(d) == [type |-> "dict", val |-> d]
AsTuple(d, p) == [type |-> "tuple", val |-> <<d, p>>]

----------------------------------------------------------------------------
\* input_participants (lines 34-102): what the user can make it return.

\* participants: every typed name is a key; a partner is None or another
\* key (line 88 adds a missing partner as a key), never the name itself
\* (line 83); later entries overwrite earlier ones, so the relation need
\* not be symmetric.
ParticipantDicts(N) ==
    UNION {{f \in [S -> S \cup {None}] : \A n \in S : f[n] # n} : S \in SUBSET N}

\* pre_assigned: any "Giver > Receiver" lines, unvalidated (line 73).
PreAssignedDicts(N) ==
    UNION {[S -> N] : S \in {T \in SUBSET N : Cardinality(T) <= MaxPre}}

input_participants(N) == ParticipantDicts(N) \X PreAssignedDicts(N)

\* Four participants in two couples, no pre-assignment.
TwoCouples ==
    <<[n \in {"A", "B", "C", "D"} |->
          CASE n = "A" -> "B" [] n = "B" -> "A" [] n = "C" -> "D" [] OTHER -> "C"],
      EmptyDict>>

\* What the first call of input_participants returns: anything over Names,
\* or the two couples.
FirstInput == input_participants(Names) \cup {TwoCouples}

----------------------------------------------------------------------------
\* is_assignment_possible (lines 15-31)

\* line 28 without "name != participants[santa]"
possible_recipients_of_PartnerAllowed(parts, santa) ==
    {name \in DOMAIN parts : name # santa}

\* line 28
possible_recipients_of(parts, santa) ==
    {name \in DOMAIN parts : name # santa /\ name # parts[santa]}

\* lines 27-31 on a dict
is_assignment_possible(parts) ==
    ~ \E santa \in DOMAIN parts : possible_recipients_of(parts, santa) = {}

\* lines 27-31 on the tuple (d, p) bound at line 213: santa is d; the name p
\* passes "name != santa" unless the two dicts are equal, and then
\* participants[santa] indexes a tuple with a dict: TypeError.  With equal
\* dicts the comprehension is empty and the function returns False.
CheckOutcome(v) ==
    IF v.type = "dict"
    THEN IF is_assignment_possible(v.val) THEN "True" ELSE "False"
    ELSE IF v.val[1] = v.val[2] THEN "False" ELSE "TypeError"

----------------------------------------------------------------------------
\* assign_secret_santa (lines 104-140)

\* line 116 without "n != participants[name]"
InitialValidAssignments_PartnerAllowed(parts) ==
    [name \in DOMAIN parts |-> {n \in DOMAIN parts : n # name}]

\* line 116: the candidate list of every name
InitialValidAssignments(parts) ==
    [name \in DOMAIN parts |->
        {n \in DOMAIN parts : n # name /\ n # parts[name]}]

\* line 119 without the filter
UnresolvedGivers_All(parts, pre) == DOMAIN parts

\* line 119: the names that are no key of pre_assigned
UnresolvedGivers(parts, pre) ==
    {name \in DOMAIN parts : name \notin DOMAIN pre}

\* line 126 without the filter
possible_recipients_Unfiltered(santa) == valid_assignments[santa]

\* line 126 with "not in assignments" (the keys) for "not in assignments.values()"
possible_recipients_NotAKey(santa) ==
    {recipient \in valid_assignments[santa] : recipient \notin DOMAIN assignments}

\* line 126
possible_recipients(santa) ==
    {recipient \in valid_assignments[santa] : recipient \notin Values(assignments)}

\* lines 115-119: entry of the function
Begin ==
    /\ pc = "call"
    /\ participants.type = "dict"
    /\ valid_assignments' = InitialValidAssignments(participants.val)
    /\ assignments' = pre_assigned
    /\ all_names' = UnresolvedGivers(participants.val, pre_assigned)
    /\ pc' = "loop"
    /\ UNCHANGED <<participants, pre_assigned, assignment>>

\* lines 122-138 with line 118 as "assignments = pre_assigned" (no copy):
\* line 132 then writes into pre_assigned too
Pick_Aliased(santa, giftee) ==
    /\ pc = "loop"
    /\ santa \in all_names
    /\ giftee \in {recipient \in valid_assignments[santa] :
                      recipient \notin Values(assignments)}
    /\ assignments' = DictSet(assignments, santa, giftee)
    /\ pre_assigned' = assignments'
    /\ all_names' = all_names \ {santa}
    /\ valid_assignments' =
          [name \in DOMAIN valid_assignments |-> valid_assignments[name] \ {giftee}]
    /\ UNCHANGED <<pc, participants, assignment>>

\* lines 122-133 without lines 136-138: the giftee stays in the candidate
\* lists
Pick_NoRemoval(santa, giftee) ==
    /\ pc = "loop"
    /\ santa \in all_names
    /\ giftee \in {recipient \in valid_assignments[santa] :
                      recipient \notin Values(assignments)}
    /\ assignments' = DictSet(assignments, santa, giftee)
    /\ all_names' = all_names \ {santa}
    /\ UNCHANGED <<pc, participants, pre_assigned, assignment, valid_assignments>>

\* lines 122-138 without line 133: santa stays in all_names
Pick_KeepsSanta(santa, giftee) ==
    /\ pc = "loop"
    /\ santa \in all_names
    /\ giftee \in {recipient \in valid_assignments[santa] :
                      recipient \notin Values(assignments)}
    /\ assignments' = DictSet(assignments, santa, giftee)
    /\ valid_assignments' =
          [name \in DOMAIN valid_assignments |-> valid_assignments[name] \ {giftee}]
    /\ UNCHANGED <<pc, participants, pre_assigned, assignment, all_names>>

\* lines 122-138: an iteration that assigns santa -> giftee
Pick(santa, giftee) ==
    /\ pc = "loop"
    /\ santa \in all_names
    /\ giftee \in possible_recipients(santa)
    /\ assignments' = DictSet(assignments, santa, giftee)
    /\ all_names' = all_names \ {santa}
    /\ valid_assignments' =
          [name \in DOMAIN valid_assignments |-> valid_assignments[name] \ {giftee}]
    /\ UNCHANGED <<pc, participants, pre_assigned, assignment>>

\* lines 122-129 with "return assignments" for "return None"
Stuck_ReturnsPartial(santa) ==
    /\ pc = "loop"
    /\ santa \in all_names
    /\ {recipient \in valid_assignments[santa] :
           recipient \notin Values(assignments)} = {}
    /\ assignment' = Mapping(assignments)
    /\ pc' = "while"
    /\ all_names' = {}
    /\ valid_assignments' = <<>>
    /\ assignments' = <<>>
    /\ UNCHANGED <<participants, pre_assigned>>

\* lines 122-129: an iteration that finds santa without a recipient
Stuck(santa) ==
    /\ pc = "loop"
    /\ santa \in all_names
    /\ possible_recipients(santa) = {}
    /\ assignment' = NoResult
    /\ pc' = "while"
    /\ all_names' = {}
    /\ valid_assignments' = EmptyDict
    /\ assignments' = EmptyDict
    /\ UNCHANGED <<participants, pre_assigned>>

\* lines 121, 140: no unresolved giver is left
Return ==
    /\ pc = "loop"
    /\ all_names = {}
    /\ assignment' = Mapping(assignments)
    /\ pc' = "while"
    /\ all_names' = {}
    /\ valid_assignments' = EmptyDict
    /\ assignments' = EmptyDict
    /\ UNCHANGED <<participants, pre_assigned>>

Attempt ==
    \/ Begin
    \/ \E santa \in all_names :
          \E giftee \in valid_assignments[santa] : Pick(santa, giftee)
    \/ \E santa \in all_names : Stuck(santa)
    \/ Return

----------------------------------------------------------------------------
\* Main program (lines 205-220)

NoLocals ==
    /\ all_names = {}
    /\ valid_assignments = EmptyDict
    /\ assignments = EmptyDict

\* line 205, and line 215 for the variable assignment
Init ==
    /\ pc = "check"
    /\ \E inp \in FirstInput :
          /\ participants = AsDict(inp[1])
          /\ pre_assigned = inp[2]
    /\ assignment = NoResult
    /\ NoLocals

\* line 207: the loop condition
Check ==
    /\ pc = "check"
    /\ pc' = CASE CheckOutcome(participants) = "True" -> "while"
               [] CheckOutcome(participants) = "False" -> "ask"
               [] OTHER -> "TypeError"
    /\ UNCHANGED <<participants, pre_assigned, assignment,
                   all_names, valid_assignments, assignments>>

\* lines 208-213, the user answers yes: the tuple returned by
\* input_participants is bound to participants
Reenter ==
    /\ pc = "ask"
    /\ \E inp \in input_participants(ReNames) :
          participants' = AsTuple(inp[1], inp[2])
    /\ pc' = "check"
    /\ UNCHANGED <<pre_assigned, assignment, all_names, valid_assignments, assignments>>

\* lines 208-212, the user answers anything else
Exit ==
    /\ pc = "ask"
    /\ pc' = "exit"
    /\ UNCHANGED <<participants, pre_assigned, assignment,
                   all_names, valid_assignments, assignments>>

\* line 216: the loop condition "not assignment"
While ==
    /\ pc = "while"
    /\ pc' = IF Truthy(assignment) THEN "reveal" ELSE "call"
    /\ UNCHANGED <<participants, pre_assigned, assignment,
                   all_names, valid_assignments, assignments>>

Next ==
    \/ Check
    \/ Reenter
    \/ Exit
    \/ While
    \/ Attempt

Spec == Init /\ [][Next]_vars

----------------------------------------------------------------------------
\* The valid complete assignments of an input: the bijections on the
\* participants that agree with pre and give no giver outside pre itself or
\* its partner.
ValidAssignments(parts, pre) ==
    {m \in [DOMAIN parts -> DOMAIN parts] :
        /\ DOMAIN pre \subseteq DOMAIN parts
        /\ \A g \in DOMAIN pre : m[g] = pre[g]
        /\ \A g \in DOMAIN parts \ DOMAIN pre : m[g] # g /\ m[g] # parts[g]
        /\ \A r \in DOMAIN parts : \E g \in DOMAIN parts : m[g] = r}

\* the main program is in its assignment loop (lines 215-217)
InAssignmentLoop == pc \in {"while", "call", "loop"}

\* the working mapping a is part of the complete mapping m
Agrees(a, m) == \A g \in DOMAIN a : g \in DOMAIN m /\ m[g] = a[g]

\* An iteration, with k unresolved givers, whose two random choices stay
\* within some valid complete assignment.
LuckyPick(k) ==
    /\ pc = "loop"
    /\ Cardinality(all_names) = k
    /\ \E m \in ValidAssignments(participants.val, pre_assigned) :
          /\ Agrees(assignments, m)
          /\ \E santa \in all_names : Pick(santa, m[santa])

\* The main program keeps running (the user's answers aside), and
\* random.choice is fair: every element of the list has a positive
\* probability, so of the choices offered again and again none is avoided
\* for ever; in particular the lucky ones are taken again and again.
FairSpec ==
    /\ Spec
    /\ WF_vars(While \/ Attempt)
    /\ \A k \in 1..Len(NameUniverse) : SF_vars(LuckyPick(k))

----------------------------------------------------------------------------
\* The engine on its own: assign_secret_santa called again and again on any
\* participants and pre_assigned that input_participants can return,
\* whatever is_assignment_possible says of them.

EngineInit ==
    /\ pc = "call"
    /\ \E inp \in FirstInput :
          /\ participants = AsDict(inp[1])
          /\ pre_assigned = inp[2]
    /\ assignment = NoResult
    /\ NoLocals

\* the caller invokes the engine once more
Invoke ==
    /\ pc = "while"
    /\ pc' = "call"
    /\ UNCHANGED <<participants, pre_assigned, assignment,
                   all_names, valid_assignments, assignments>>

EngineNext ==
    \/ Attempt
    \/ Invoke

EngineSpec == EngineInit /\ [][EngineNext]_vars

----------------------------------------------------------------------------
\* Vocabulary of the properties

\* pre is an injective partial map from the participants to the participants
InjectivePartialMap(parts, pre) ==
    /\ DOMAIN pre \subseteq DOMAIN parts
    /\ Values(pre) \subseteq DOMAIN parts
    /\ \A g, h \in DOMAIN pre : pre[g] = pre[h] => g = h

\* the participants that name is allowed to receive: everyone but name and
\* name's partner
CandidateSet(parts, name) == DOMAIN parts \ {name, parts[name]}

\* the number of givers of m whose receiver is r
TimesReceived(m, r) == Cardinality({g \in DOMAIN m : m[g] = r})

----------------------------------------------------------------------------
\* C1: with a pre-assignment that is an injective partial map from the
\* participants to the participants, every mapping the engine returns has
\* exactly the participants as givers and every participant as a receiver
\* exactly once.
C1_ResultIsBijection ==
    (participants.type = "dict" /\ ~IsNone(assignment)
        /\ InjectivePartialMap(participants.val, pre_assigned))
    => /\ DOMAIN assignment[1] = DOMAIN participants.val
       /\ \A r \in DOMAIN participants.val : TimesReceived(assignment[1], r) = 1
       /\ Values(assignment[1]) \subseteq DOMAIN participants.val

C1_Witness ==
    /\ participants.type = "dict"
    /\ ~IsNone(assignment)
    /\ InjectivePartialMap(participants.val, pre_assigned)
    /\ Cardinality(DOMAIN participants.val) = 3
    /\ Cardinality(DOMAIN pre_assigned) = 1

\* C2: when pre_assigned maps no giver to itself, every mapping the engine
\* returns gives nobody to themselves, and gives nobody their partner
\* unless the giver is a key of pre_assigned.
C2_NoSelfNoPartner ==
    (participants.type = "dict" /\ ~IsNone(assignment)
        /\ \A g \in DOMAIN pre_assigned : pre_assigned[g] # g)
    => \A G \in DOMAIN assignment[1] :
          /\ assignment[1][G] # G
          /\ G \notin DOMAIN pre_assigned
                => assignment[1][G] # participants.val[G]

C2_Witness ==
    /\ participants.type = "dict"
    /\ ~IsNone(assignment)
    /\ \A g \in DOMAIN pre_assigned : pre_assigned[g] # g
    /\ \E G \in DOMAIN participants.val :
          /\ participants.val[G] # None
          /\ G \notin DOMAIN pre_assigned
    /\ \E G \in DOMAIN pre_assigned :
          /\ G \in DOMAIN participants.val
          /\ pre_assigned[G] = participants.val[G]

\* C3: during an attempt and in every returned mapping, every pre-assigned
\* giver keeps its pre-assigned receiver, and no pre-assigned giver is
\* among the unresolved givers.
C3_PreAssignedKept ==
    /\ pc = "loop" =>
          /\ \A g \in DOMAIN pre_assigned :
                g \in DOMAIN assignments /\ assignments[g] = pre_assigned[g]
          /\ all_names \cap DOMAIN pre_assigned = {}
    /\ ~IsNone(assignment) =>
          \A g \in DOMAIN pre_assigned :
             g \in DOMAIN assignment[1] /\ assignment[1][g] = pre_assigned[g]

C3_Witness ==
    /\ pc = "loop"
    /\ \E g \in DOMAIN pre_assigned : g \in DOMAIN participants.val
    /\ Cardinality(DOMAIN assignments) > Cardinality(DOMAIN pre_assigned)
    /\ all_names # {}

C5_Original ==
    (/\ ~is_assignment_possible(participants.val)
     /\ InjectivePartialMap(participants.val, pre_assigned)
     /\ \A g \in DOMAIN pre_assigned : pre_assigned[g] # g)
    => IsNone(assignment)

\* C5 as amended: whenever is_assignment_possible returns False and some
\* participant with an empty candidate set is not a key of pre_assigned, no
\* attempt returns a mapping.
C5_NecessaryForUnresolved ==
    (/\ ~is_assignment_possible(participants.val)
     /\ \E P \in DOMAIN participants.val \ DOMAIN pre_assigned :
           CandidateSet(participants.val, P) = {})
    => IsNone(assignment)

C5_Witness ==
    /\ ~is_assignment_possible(participants.val)
    /\ \E P \in DOMAIN participants.val \ DOMAIN pre_assigned :
          CandidateSet(participants.val, P) = {}
    /\ Cardinality(DOMAIN participants.val) = 2
    /\ pre_assigned # EmptyDict
    /\ pc = "while"
    /\ IsNone(assignment)

\* C10: no step of an attempt changes participants or pre_assigned, and
\* every attempt starts from a copy of pre_assigned, the full candidate
\* sets and the participants that are no pre-assigned givers, whatever the
\* attempts before it did.
C10_FreshAttempt ==
    [][/\ participants' = participants
       /\ pre_assigned' = pre_assigned
       /\ (pc = "call" /\ pc' = "loop") =>
             /\ assignments' = pre_assigned'
             /\ DOMAIN valid_assignments' = DOMAIN participants'.val
             /\ \A n \in DOMAIN participants'.val :
                   valid_assignments'[n] = CandidateSet(participants'.val, n)
             /\ all_names' = DOMAIN participants'.val \ DOMAIN pre_assigned'
      ]_vars

\* an attempt has just started after an earlier attempt returned a mapping
C10_Witness ==
    /\ pc = "loop"
    /\ ~IsNone(assignment)
    /\ assignments = pre_assigned
    /\ pre_assigned # EmptyDict
    /\ Cardinality(all_names) >= 2

\* C7 as claimed: for every input that passes is_assignment_possible and has
\* no valid complete assignment, every attempt returns None and the main
\* program never reaches reveal_assignments.
C7_Original ==
    (/\ participants.type = "dict"
     /\ pc \notin {"check", "ask", "exit"}
     /\ ValidAssignments(participants.val, pre_assigned) = {})
    => IsNone(assignment) /\ pc # "reveal"

\* C7 as amended: the same for the inputs whose pre_assigned is an injective
\* partial map from the participants to the participants.
C7_InfeasibleNeverReveals ==
    \/ IsNone(assignment) /\ InAssignmentLoop
    \/ ~ /\ participants.type = "dict"
         /\ pc \notin {"check", "ask", "exit"}
         /\ InjectivePartialMap(participants.val, pre_assigned)
         /\ ValidAssignments(participants.val, pre_assigned) = {}

\* a second attempt is under way on such an input, with no pre-assignment
C7_Witness ==
    /\ participants.type = "dict"
    /\ pc = "loop"
    /\ pre_assigned = EmptyDict
    /\ ValidAssignments(participants.val, pre_assigned) = {}
    /\ Cardinality(DOMAIN assignments) = 2
    /\ all_names # {}

C9_Claim ==
    [][pc = "while" =>
          /\ ~IsNone(assignment) => pc' = "reveal"
          /\ pc' = "call" => IsNone(assignment)
      ]_vars

\* C6: for every input that has a valid complete assignment, the retry loop
\* of the main program eventually gets a mapping back from the engine, the
\* random choices being fair.
C6_EventuallyMapping ==
    (/\ participants.type = "dict"
     /\ InAssignmentLoop
     /\ ValidAssignments(participants.val, pre_assigned) # {})
    ~> (pc = "while" /\ ~IsNone(assignment))

\* a mapping came back for the two couples
C6_Witness ==
    /\ participants = AsDict(TwoCouples[1])
    /\ pre_assigned = TwoCouples[2]
    /\ ValidAssignments(participants.val, pre_assigned) # {}
    /\ pc = "while"
    /\ ~IsNone(assignment)

----------------------------------------------------------------------------
\* Scenarios

\* the dict with keys A, B, C and the given values
ABC(a, b, c) ==
    [n \in {"A", "B", "C"} |-> CASE n = "A" -> a [] n = "B" -> b [] OTHER -> c]

\* the dict with keys A, B and the given values
AB(a, b) == [n \in {"A", "B"} |-> IF n = "A" THEN a ELSE b]

\* the dict {A: B}
AToB == [n \in {"A"} |-> "B"]

\* C11 as claimed: on {A, B, C} without partners and pre_assigned {A: B},
\* every call of the engine returns {A: B, B: C, C: A}, never None.
C11_Original ==
    (/\ participants = AsDict(ABC(None, None, None))
     /\ pre_assigned = AToB
     /\ pc = "while")
    => assignment = Mapping(ABC("B", "C", "A"))

\* C11 as amended: on that input every call returns None or
\* {A: B, B: C, C: A}; a returned mapping keeps A -> B and completes it with
\* B -> C, C -> A.
C11_MappingOrNone ==
    (/\ participants = AsDict(ABC(None, None, None))
     /\ pre_assigned = AToB
     /\ pc = "while")
    => \/ IsNone(assignment)
       \/ assignment = Mapping(ABC("B", "C", "A"))

C11_Witness ==
    /\ participants = AsDict(ABC(None, None, None))
    /\ pre_assigned = AToB
    /\ pc = "while"
    /\ assignment = Mapping(ABC("B", "C", "A"))

\* C12: on {A, B} without partners and without pre-assignment,
\* is_assignment_possible returns True and every call of the engine returns
\* exactly {A: B, B: A}, never None.
C12_TwoParticipants ==
    (/\ participants = AsDict(AB(None, None))
     /\ pre_assigned = EmptyDict)
    => /\ is_assignment_possible(participants.val)
       /\ pc = "while" => assignment = Mapping(AB("B", "A"))

C12_Witness ==
    /\ participants = AsDict(AB(None, None))
    /\ pre_assigned = EmptyDict
    /\ pc = "while"
    /\ assignment = Mapping(AB("B", "A"))

\* the partners form the cycle A - B - C - A, no pre-assignment
ThreeCycle ==
    /\ participants = AsDict(ABC("B", "C", "A"))
    /\ pre_assigned = EmptyDict

\* C13 as claimed: on the three-cycle is_assignment_possible returns True,
\* and the retry loop spins for ever: no attempt returns a mapping (there
\* being no valid assignment) and reveal_assignments is never reached.
C13_Original ==
    (ThreeCycle /\ pc # "check")
    => InAssignmentLoop /\ IsNone(assignment)

\* C13 as amended: on the three-cycle is_assignment_possible returns True,
\* exactly one valid assignment exists (A -> C, B -> A, C -> B: everybody
\* gives to the one who is not their partner), no iteration of an attempt
\* can return None, every attempt returns that assignment, and the retry
\* loop then ends.
C13_ThreeCycleSucceeds ==
    ThreeCycle =>
       /\ ValidAssignments(participants.val, pre_assigned)
             = {ABC("C", "A", "B")}
       /\ pc \notin {"ask", "exit"}
       /\ pc = "loop" => ~ENABLED (\E santa \in all_names : Stuck(santa))
       /\ ~IsNone(assignment) =>
             /\ assignment = Mapping(ABC("C", "A", "B"))
             /\ Truthy(assignment)
             /\ pc \in {"while", "reveal"}

C13_Witness ==
    /\ ThreeCycle
    /\ pc = "reveal"
    /\ assignment = Mapping(ABC("C", "A", "B"))

----------------------------------------------------------------------------
\* The iterations of an attempt

\* the receivers claimed by the iterations of the attempt so far
Claimed(a, pre) == {a[g] : g \in DOMAIN a \ DOMAIN pre}

\* C14: within an attempt every candidate set starts as all participants but
\* the giver and its partner, an iteration leaves every candidate set a
\* subset of what it was, and a receiver claimed by an iteration is in no
\* candidate set for the rest of the attempt.
C14_CandidatesShrink ==
    [][/\ (pc = "call" /\ pc' = "loop") =>
             \A g \in DOMAIN participants.val :
                valid_assignments'[g] = CandidateSet(participants.val, g)
       /\ (pc = "loop" /\ pc' = "loop") =>
             /\ DOMAIN valid_assignments' = DOMAIN valid_assignments
             /\ \A g \in DOMAIN valid_assignments :
                   valid_assignments'[g] \subseteq valid_assignments[g]
       /\ pc' = "loop" =>
             \A r \in Claimed(assignments', pre_assigned') :
                \A g \in DOMAIN valid_assignments' : r \notin valid_assignments'[g]
      ]_vars

\* two receivers are claimed and a giver is still unresolved
C14_Witness ==
    /\ pc = "loop"
    /\ Cardinality(Claimed(assignments, pre_assigned)) = 2
    /\ all_names # {}
    /\ \E g \in DOMAIN valid_assignments : valid_assignments[g] # {}

\* C15: an attempt returns None only in an iteration whose giver has no
\* candidate left outside the receivers of the working mapping (the
\* pre-assigned ones included); it returns a mapping, the working mapping,
\* only when no unresolved giver is left; and an iteration never chooses a
\* receiver that the working mapping already has.
C15_ReturnsAndChoices ==
    [][/\ (pc = "loop" /\ pc' = "while" /\ IsNone(assignment')) =>
             \E santa \in all_names :
                valid_assignments[santa] \ Values(assignments) = {}
       /\ (pc = "loop" /\ pc' = "while" /\ ~IsNone(assignment')) =>
             /\ all_names = {}
             /\ assignment' = Mapping(assignments)
       /\ (pc = "loop" /\ pc' = "loop") =>
             \A g \in DOMAIN assignments' \ DOMAIN assignments :
                assignments'[g] \notin Values(assignments)
      ]_vars

\* an attempt on three participants that pass the check, with a
\* pre-assignment, has returned None
C15_Witness ==
    /\ pc = "while"
    /\ IsNone(assignment)
    /\ Cardinality(DOMAIN participants.val) = 3
    /\ is_assignment_possible(participants.val)
    /\ InjectivePartialMap(participants.val, pre_assigned)
    /\ pre_assigned # EmptyDict

\* the working mapping a completed by f, a mapping of the unresolved givers
Extend(a, f) ==
    [g \in DOMAIN a \cup DOMAIN f |-> IF g \in DOMAIN f THEN f[g] ELSE a[g]]

\* C16: with a pre-assignment that is an injective partial map over the
\* participants, the mappings the engine can return are exactly the valid
\* complete assignments.  None other is returned; and each valid one can be:
\* an attempt starts from pre_assigned, which is part of every valid
\* assignment; the working mapping and the unresolved givers always make up
\* the participants; and for every valid assignment m that completes the
\* working mapping, every unresolved giver santa can be given m[santa]
\* (after which m still completes the working mapping), and m is returned
\* once nobody is unresolved.
C16_ExactlyTheValid ==
    \/ pc \notin {"loop", "while"}
    \/ ~InjectivePartialMap(participants.val, pre_assigned)
    \/ /\ ~IsNone(assignment) =>
             assignment[1] \in ValidAssignments(participants.val, pre_assigned)
       /\ pc = "loop" =>
             /\ DOMAIN assignments = DOMAIN pre_assigned
                   => assignments = pre_assigned
             /\ DOMAIN assignments \cup all_names = DOMAIN participants.val
             /\ DOMAIN assignments \cap all_names = {}
             /\ \A f \in [all_names -> DOMAIN participants.val] :
                   Extend(assignments, f)
                         \in ValidAssignments(participants.val, pre_assigned)
                   => IF all_names = {}
                      THEN ENABLED Return
                      ELSE \A santa \in all_names : ENABLED Pick(santa, f[santa])

\* one of two valid assignments has been returned
C16_Witness ==
    /\ pc = "while"
    /\ ~IsNone(assignment)
    /\ InjectivePartialMap(participants.val, pre_assigned)
    /\ Cardinality(ValidAssignments(participants.val, pre_assigned)) = 2
    /\ assignment[1] \in ValidAssignments(participants.val, pre_assigned)

\* the iterations of the attempt that assigned a receiver
IterationsDone(a, pre) == Cardinality(DOMAIN a) - Cardinality(DOMAIN pre)

\* the participants that are no pre-assigned givers
NotPreAssigned(parts, pre) == Cardinality(DOMAIN parts \ DOMAIN pre)

\* C17: every iteration of an attempt either returns None or takes exactly
\* one giver out of the unresolved ones and adds exactly one entry to the
\* working mapping; the iterations done and the unresolved givers add up to
\* the participants that are no pre-assigned givers, so an attempt ends
\* within that many iterations, the one that returns None included.
C17_AttemptTerminates ==
    [][/\ (pc = "loop" /\ all_names # {}) =>
             \/ pc' = "while" /\ IsNone(assignment')
             \/ /\ pc' = "loop"
                /\ all_names' \subseteq all_names
                /\ Cardinality(all_names') = Cardinality(all_names) - 1
                /\ \A g \in DOMAIN assignments :
                      g \in DOMAIN assignments' /\ assignments'[g] = assignments[g]
                /\ Cardinality(DOMAIN assignments')
                      = Cardinality(DOMAIN assignments) + 1
       /\ (pc = "loop" /\ all_names = {}) =>
             pc' = "while" /\ ~IsNone(assignment')
       /\ pc' = "loop" =>
             IterationsDone(assignments', pre_assigned') + Cardinality(all_names')
                = NotPreAssigned(participants'.val, pre_assigned')
       /\ (pc = "loop" /\ pc' = "while" /\ IsNone(assignment')) =>
             IterationsDone(assignments, pre_assigned) + 1
                <= NotPreAssigned(participants.val, pre_assigned)
      ]_vars

\* three iterations have resolved three givers
C17_Witness ==
    /\ pc = "loop"
    /\ all_names = {}
    /\ IterationsDone(assignments, pre_assigned) = 3
    /\ NotPreAssigned(participants.val, pre_assigned) = 3

\* some participant names another participant as partner
NamesAnother(parts) ==
    \E santa \in DOMAIN parts : parts[santa] \in DOMAIN parts \ {santa}

\* the participant mappings C18 says the check refuses
RefusedShape(parts) ==
    \/ Cardinality(DOMAIN parts) = 1
    \/ Cardinality(DOMAIN parts) = 2 /\ NamesAnother(parts)

====
